---- MODULE Spec2Model ----
(***************************************************************************)
(* SubRip (.srt) streaming parser of the `subtitles` crate.                *)
(*                                                                         *)
(* The byte source is a sequence of bytes (0..255) with a read cursor.     *)
(* Strings are sequences of Unicode code points.  One action models one    *)
(* call of Iterator::next (a "pull"): it runs parse_next to its return.    *)
(***************************************************************************)
EXTENDS Integers, Sequences, FiniteSets, TLC

VARIABLES
    lines,      \* the lines the input was written from (never read by the parser)
    bom,        \* the byte-order-mark the input was written with
    input,      \* the bytes of the underlying source
    pos,        \* BufReader cursor: number of bytes already consumed
    decoder,    \* SubRipParser.decoder: Option<Decoder>
    items,      \* the items returned by the pulls so far, in order
    cursors,    \* the cursor after each pull
    faults,     \* read failures the source may still produce
    ioErrors,   \* the pulls (indices into items) during which a read failed
    other,      \* a second parser, over a source of its own
    rendered    \* the items formatted so far with Display, in order

vars == <<lines, bom, input, pos, decoder, items, cursors, faults, ioErrors, other,
          rendered>>

----------------------------------------------------------------------------
(* Bounds of the model *)

MaxLines == 5        \* lines of an arbitrary input
MaxPulls == 7        \* calls of Iterator::next in one run
MaxFaults == 1       \* read failures of the source in one run
MaxLost == 1         \* bytes a failing read consumed before it failed
MaxIoLines == 3      \* lines of an input read from a failing source
MaxRecords == 2      \* blocks of a block-structured input
MaxWideLines == 2    \* lines of an input of wide characters
MaxTwinLines == 3    \* lines of an input read by two parsers
MaxBytes == 3        \* bytes of a text line of arbitrary bytes
MaxCrLines == 4
MaxTokens == 10
MaxBlank == 2        \* blank lines in a row

----------------------------------------------------------------------------
(* Characters and the line vocabulary *)

LF == 10
CR == 13
NUL == 0
ReplacementChar == 65533

Min(a, b) == IF a < b THEN a ELSE b
Max(a, b) == IF a > b THEN a ELSE b

\* "1", "2"
LinePos1 == <<49>>
LinePos2 == <<50>>
\* "1b"
LineBadPos == <<49, 98>>
\* "00:00:01,000 --> 00:00:02,000"
LineTimecode ==
    <<48, 48, 58, 48, 48, 58, 48, 49, 44, 48, 48, 48,
      32, 45, 45, 62, 32,
      48, 48, 58, 48, 48, 58, 48, 50, 44, 48, 48, 48>>
\* "00:00:00,000"
LineBadTimecode == <<48, 48, 58, 48, 48, 58, 48, 48, 44, 48, 48, 48>>
\* "ab"
LineText == <<97, 98>>
LineBlank == <<>>

Vocabulary == {LinePos1, LineBadPos, LineTimecode, LineBadTimecode, LineBlank}

----------------------------------------------------------------------------
(* Writing an input: lines joined by single linefeeds, encoded, after a mark *)

RECURSIVE JoinLines(_)
JoinLines(ls) ==
    IF ls = <<>> THEN <<>>
    ELSE IF Len(ls) = 1 THEN ls[1]
    ELSE ls[1] \o <<LF>> \o JoinLines(Tail(ls))

\* the same lines with the terminator CR LF
RECURSIVE JoinCrLf(_)
JoinCrLf(ls) ==
    IF ls = <<>> THEN <<>>
    ELSE IF Len(ls) = 1 THEN ls[1]
    ELSE ls[1] \o <<CR, LF>> \o JoinCrLf(Tail(ls))

EncodeUtf16(chars, bigEndian) ==
    [i \in 1..(2 * Len(chars)) |->
        IF (i % 2 = 1) = bigEndian THEN chars[(i + 1) \div 2] \div 256
                                   ELSE chars[(i + 1) \div 2] % 256]

BomBytes(b) ==
    CASE b = "UTF_8"    -> <<239, 187, 191>>
      [] b = "UTF_16BE" -> <<254, 255>>
      [] b = "UTF_16LE" -> <<255, 254>>
      [] OTHER          -> <<>>

\* the bytes of a file holding `chars` (all below U+0080 in UTF-8 files)
WriteFile(b, chars) ==
    BomBytes(b) \o
    (CASE b = "UTF_16BE" -> EncodeUtf16(chars, TRUE)
       [] b = "UTF_16LE" -> EncodeUtf16(chars, FALSE)
       [] OTHER          -> chars)

----------------------------------------------------------------------------
(* The decoder (encoding_rs, as used by next_line) *)

None == [some |-> FALSE, encoding |-> "none", seen |-> 0, pending |-> <<>>]

IsPrefix(p, s) == Len(p) <= Len(s) /\ SubSeq(s, 1, Len(p)) = p

Drop(s, n) == SubSeq(s, n + 1, Len(s))

\* Encoding::for_bom(&buf).unwrap_or((UTF_8, 3)): the encoding only
for_bom(buf) ==
    IF IsPrefix(BomBytes("UTF_8"), buf) THEN "UTF_8"
    ELSE IF IsPrefix(BomBytes("UTF_16LE"), buf) THEN "UTF_16LE"
    ELSE IF IsPrefix(BomBytes("UTF_16BE"), buf) THEN "UTF_16BE"
    ELSE "UTF_8"

\* Encoding::new_decoder_with_bom_removal(encoding)
new_decoder_with_bom_removal(encoding) ==
    [some |-> TRUE, encoding |-> encoding, seen |-> 0, pending |-> <<>>]

\* length of a code point written as UTF-8
Utf8Len(c) == IF c < 128 THEN 1 ELSE IF c < 2048 THEN 2 ELSE IF c < 65536 THEN 3 ELSE 4

IsCont(b, lo, hi) == b >= lo /\ b <= hi

\* The first unit of a non-empty UTF-8 byte string: how many bytes it takes,
\* and whether it is a character, a malformed sequence (replaced by U+FFFD)
\* or a sequence the end of the buffer cuts short.
Utf8Unit(src) ==
    LET b == src[1]
        n == Len(src)
        need == IF b >= 194 /\ b <= 223 THEN 1
                ELSE IF b >= 224 /\ b <= 239 THEN 2
                ELSE IF b >= 240 /\ b <= 244 THEN 3
                ELSE 0
        lo2 == IF b = 224 THEN 160 ELSE IF b = 240 THEN 144 ELSE 128
        hi2 == IF b = 237 THEN 159 ELSE IF b = 244 THEN 143 ELSE 191
        ok2 == n >= 2 /\ IsCont(src[2], lo2, hi2)
        ok3 == n >= 3 /\ IsCont(src[3], 128, 191)
        ok4 == n >= 4 /\ IsCont(src[4], 128, 191)
        bad(k) == [kind |-> "malformed", len |-> k, char |-> ReplacementChar]
        cut == [kind |-> "incomplete", len |-> n, char |-> 0]
        chr(k, c) == [kind |-> "valid", len |-> k, char |-> c]
    IN  IF b < 128 THEN chr(1, b)
        ELSE IF need = 0 THEN bad(1)
        ELSE IF n < 2 THEN cut
        ELSE IF ~ok2 THEN bad(1)
        ELSE IF need = 1 THEN chr(2, (b - 192) * 64 + (src[2] - 128))
        ELSE IF n < 3 THEN cut
        ELSE IF ~ok3 THEN bad(2)
        ELSE IF need = 2
             THEN chr(3, (b - 224) * 4096 + (src[2] - 128) * 64 + (src[3] - 128))
        ELSE IF n < 4 THEN cut
        ELSE IF ~ok4 THEN bad(3)
        ELSE chr(4, (b - 240) * 262144 + (src[2] - 128) * 4096
                    + (src[3] - 128) * 64 + (src[4] - 128))

\* the least element of a non-empty set of integers
Least(S) == CHOOSE j \in S : \A k \in S : j <= k

\* number of leading bytes below 0x80
AsciiRun(src) ==
    IF \A i \in 1..Len(src) : src[i] < 128 THEN Len(src)
    ELSE Least({i \in 1..Len(src) : src[i] >= 128}) - 1

\* UTF-8 to code points into `room` bytes of output: valid text is copied
\* while it fits; anything else is handled only with 4 bytes of room left.
\* A sequence the end of the buffer cuts short stays in the decoder, which
\* is never asked to finish it (last = false).
RECURSIVE DecodeUtf8(_, _)
DecodeUtf8Unit(src, room, u) ==
    IF u.kind = "valid"
    THEN IF Utf8Len(u.char) <= room
         THEN <<u.char>> \o DecodeUtf8(Drop(src, u.len), room - Utf8Len(u.char))
         ELSE <<>>
    ELSE IF room >= 4 /\ u.kind = "malformed"
    THEN <<ReplacementChar>> \o DecodeUtf8(Drop(src, u.len), room - 3)
    ELSE <<>>

\* a run of `a` ASCII bytes is copied as far as it fits
DecodeUtf8Run(src, room, a) ==
    IF a = 0 THEN DecodeUtf8Unit(src, room, Utf8Unit(src))
    ELSE IF a > room THEN SubSeq(src, 1, room)
    ELSE SubSeq(src, 1, a) \o DecodeUtf8(Drop(src, a), room - a)

DecodeUtf8(src, room) ==
    IF src = <<>> THEN <<>> ELSE DecodeUtf8Run(src, room, AsciiRun(src))

CodeUnit(hi, lo) == hi * 256 + lo

Utf16UnitAt(src, bigEndian, i) ==
    IF bigEndian THEN CodeUnit(src[2 * i - 1], src[2 * i])
                 ELSE CodeUnit(src[2 * i], src[2 * i - 1])

\* number of leading complete code units below 0x80
AsciiUnits(src, bigEndian) ==
    IF \A i \in 1..(Len(src) \div 2) : Utf16UnitAt(src, bigEndian, i) < 128
    THEN Len(src) \div 2
    ELSE Least({i \in 1..(Len(src) \div 2) : Utf16UnitAt(src, bigEndian, i) >= 128}) - 1

\* UTF-16 to code points into `room` bytes of output: a code unit is
\* converted only with 3 bytes of room left (4 for a surrogate pair); the
\* result carries the bytes of a code unit (or surrogate pair) the end of the
\* buffer cuts short.
RECURSIVE DecodeUtf16(_, _, _)
Utf16Emit(chars, t) == [chars |-> chars \o t.chars, pending |-> t.pending]

DecodeUtf16Unit(src, bigEndian, room, u, v) ==
    LET c == IF u >= 55296 /\ u <= 56319
             THEN IF v >= 56320 /\ v <= 57343
                  THEN 65536 + (u - 55296) * 1024 + (v - 56320)
                  ELSE ReplacementChar
             ELSE IF u >= 56320 /\ u <= 57343 THEN ReplacementChar
             ELSE u
        k == IF c >= 65536 THEN 4 ELSE 2
    IN  IF u >= 55296 /\ u <= 56319 /\ Len(src) < 4
        THEN [chars |-> <<>>, pending |-> src]
        ELSE IF room < (IF u >= 55296 /\ u <= 56319 THEN 4 ELSE 3)
        THEN [chars |-> <<>>, pending |-> <<>>]
        ELSE Utf16Emit(<<c>>, DecodeUtf16(Drop(src, k), bigEndian, room - Utf8Len(c)))

\* a run of `a` ASCII code units is converted as far as the room allows
DecodeUtf16Run(src, bigEndian, room, a) ==
    IF a = 0
    THEN DecodeUtf16Unit(src, bigEndian, room, Utf16UnitAt(src, bigEndian, 1),
                         IF Len(src) < 4 THEN 0 ELSE Utf16UnitAt(src, bigEndian, 2))
    ELSE IF a > room - 2
    THEN [chars |-> [i \in 1..Max(0, room - 2) |-> Utf16UnitAt(src, bigEndian, i)],
          pending |-> <<>>]
    ELSE Utf16Emit([i \in 1..a |-> Utf16UnitAt(src, bigEndian, i)],
                   DecodeUtf16(Drop(src, 2 * a), bigEndian, room - a))

DecodeUtf16(src, bigEndian, room) ==
    IF src = <<>> THEN [chars |-> <<>>, pending |-> <<>>]
    ELSE IF Len(src) < 2 THEN [chars |-> <<>>, pending |-> src]
    ELSE DecodeUtf16Run(src, bigEndian, room, AsciiUnits(src, bigEndian))

\* the decoder's conversion proper, after byte-order-mark removal
Convert(dec, src, room) ==
    IF dec.encoding = "UTF_8"
    THEN [chars |-> DecodeUtf8(src, room), pending |-> <<>>]
    ELSE DecodeUtf16(src, dec.encoding = "UTF_16BE", room)

Converted(dec, out) ==
    [chars |-> out.chars, dec |-> [dec EXCEPT !.seen = -1, !.pending = out.pending]]

\* what reaches the conversion: `stream` is the stream from its start while
\* the byte-order-mark is still being looked for
AfterBom(dec, mark, stream) ==
    IF dec.seen < 0 THEN dec.pending \o stream
    ELSE IF IsPrefix(mark, stream) THEN Drop(stream, Len(mark))
    ELSE stream

RemoveBom(dec, mark, stream, room) ==
    IF dec.seen >= 0 /\ ~IsPrefix(mark, stream) /\ IsPrefix(stream, mark)
    THEN [chars |-> <<>>, dec |-> [dec EXCEPT !.seen = Len(stream)]]
    ELSE Converted(dec, Convert(dec, AfterBom(dec, mark, stream), room))

\* decoder.decode_to_string(&buf, &mut line, false) with line's capacity
\* buf.len(): the decoded characters and the decoder afterwards.
decode_to_string(dec, buf) ==
    RemoveBom(dec, BomBytes(dec.encoding),
              IF dec.seen >= 0 THEN SubSeq(BomBytes(dec.encoding), 1, dec.seen) \o buf
              ELSE buf,
              Len(buf))

\* core::trim_newline
trim_newline(line) ==
    IF line /= <<>> /\ line[Len(line)] = LF
    THEN LET t == SubSeq(line, 1, Len(line) - 1)
         IN  IF t /= <<>> /\ t[Len(t)] = CR THEN SubSeq(t, 1, Len(t) - 1) ELSE t
    ELSE line

----------------------------------------------------------------------------
(* Field parsers (core.rs) *)

IsDigit(c) == c >= 48 /\ c <= 57

RECURSIVE DigitsValue(_, _)
DigitsValue(s, acc) ==
    IF s = <<>> THEN acc ELSE DigitsValue(Tail(s), acc * 10 + (s[1] - 48))

\* str::parse for an unsigned integer type whose largest value is `max`:
\* an optional '+', then one or more decimal digits, no overflow.
\* (Strings of more than 9 digits are reported as overflow.)
ParseUnsigned(s, max) ==
    LET body == IF s /= <<>> /\ s[1] = 43 THEN Tail(s) ELSE s
    IN  IF body = <<>> \/ \E i \in 1..Len(body) : ~IsDigit(body[i])
        THEN [ok |-> FALSE, value |-> 0]
        ELSE IF Len(body) > 9 \/ DigitsValue(body, 0) > max
        THEN [ok |-> FALSE, value |-> 0]
        ELSE [ok |-> TRUE, value |-> DigitsValue(body, 0)]

U8Max == 255
U16Max == 65535
MaxPosition == 999999999    \* largest position modelled (the field is a usize)

\* core::parse_position: Ok(None) on an empty line, else the parsed usize
parse_position(line) ==
    IF line = <<>> THEN [ok |-> TRUE, some |-> FALSE, value |-> 0]
    ELSE LET r == ParseUnsigned(line, MaxPosition)
         IN  [ok |-> r.ok, some |-> r.ok, value |-> r.value]

\* the delimiters without the space
DelimitersNoSpace == {58, 44}

TimecodeDelimiters == {58, 44, 32}

\* the elements of a set of integers in increasing order
RECURSIVE Sorted(_)
Sorted(S) == IF S = {} THEN <<>> ELSE <<Least(S)>> \o Sorted(S \ {Least(S)})

\* the pieces of s between the cut positions d[1] < d[2] < ...
Pieces(s, d) ==
    [k \in 1..(Len(d) + 1) |->
        SubSeq(s, IF k = 1 THEN 1 ELSE d[k - 1] + 1,
                  IF k > Len(d) THEN Len(s) ELSE d[k] - 1)]

\* str::split on a set of characters: the pieces between delimiters, empty
\* pieces included
Split(s, delims) == Pieces(s, Sorted({i \in 1..Len(s) : s[i] \in delims}))

NoTimecode == [hours |-> 0, minutes |-> 0, seconds |-> 0, milliseconds |-> 0]

\* the fields of the end read from the tokens 4..7, the arrow not counted
FieldNoArrow(tok, i, max) ==
    IF i >= 5 THEN (IF i > Len(tok) THEN [ok |-> FALSE, value |-> 0]
                    ELSE ParseUnsigned(tok[i], max))
    ELSE IF i + 1 > Len(tok) THEN [ok |-> FALSE, value |-> 0]
    ELSE ParseUnsigned(tok[i + 1], max)

\* line.get(i).ok_or(err)?.parse()?
Field(tok, i, max) ==
    IF i + 1 > Len(tok) THEN [ok |-> FALSE, value |-> 0]
    ELSE ParseUnsigned(tok[i + 1], max)

\* a Timecode built from four parsed fields
TimecodeAt(h, m, sec, ms) ==
    [ok |-> h.ok /\ m.ok /\ sec.ok /\ ms.ok,
     code |-> [hours |-> h.value, minutes |-> m.value,
               seconds |-> sec.value, milliseconds |-> ms.value]]

TimecodePair(start, end) ==
    IF start.ok /\ end.ok
    THEN [ok |-> TRUE, some |-> TRUE, start |-> start.code, end |-> end.code]
    ELSE [ok |-> FALSE, some |-> FALSE, start |-> NoTimecode, end |-> NoTimecode]

TimecodeOf(tok) ==
    TimecodePair(
        TimecodeAt(Field(tok, 0, U8Max), Field(tok, 1, U8Max),
                   Field(tok, 2, U8Max), Field(tok, 3, U16Max)),
        TimecodeAt(Field(tok, 5, U8Max), Field(tok, 6, U8Max),
                   Field(tok, 7, U8Max), Field(tok, 8, U16Max)))

\* core::parse_timecode
parse_timecode(line) ==
    IF line = <<>>
    THEN [ok |-> TRUE, some |-> FALSE, start |-> NoTimecode, end |-> NoTimecode]
    ELSE TimecodeOf(Split(line, TimecodeDelimiters))

----------------------------------------------------------------------------
(* The line reader (parser.rs) *)

\* index of the first `delim` after byte i of src, or the end of src
FindDelim(src, i, delim) ==
    IF \A j \in (i + 1)..Len(src) : src[j] /= delim THEN Len(src)
    ELSE Least({j \in (i + 1)..Len(src) : src[j] = delim})

\* BufRead::read_until(delim, &mut buf)?: the bytes up to and including the
\* delimiter at j (or to the end of the source).  rd.failIn counts the reads
\* left before the source reports an error; the bytes read before the error
\* (at most rd.lost, never the delimiter) are consumed and given up.
ReadTo(rd, j) ==
    IF rd.failIn = 1
    THEN [ok |-> FALSE, bytes |-> <<>>,
          rd |-> [rd EXCEPT !.pos = rd.pos + Min(rd.lost, Max(0, j - rd.pos - 1)),
                            !.failIn = 0, !.failed = TRUE]]
    ELSE [ok |-> TRUE, bytes |-> SubSeq(rd.input, rd.pos + 1, j),
          rd |-> [rd EXCEPT !.pos = j,
                            !.failIn = IF rd.failIn > 1 THEN rd.failIn - 1 ELSE 0]]

read_until(rd, delim) == ReadTo(rd, FindDelim(rd.input, rd.pos, delim))

\* next_line from `if buf.is_empty()` on
Decoded(buf, rd, d) ==
    IF buf = <<>> THEN [res |-> "none", line |-> <<>>, rd |-> rd]
    ELSE [res |-> "line", line |-> trim_newline(d.chars),
          rd |-> [rd EXCEPT !.decoder = d.dec]]

\* next_line after the second read (UTF-16LE only)
SecondRead(bytes, dec, r2) ==
    IF ~r2.ok THEN [res |-> "err", line |-> <<>>, rd |-> [r2.rd EXCEPT !.decoder = dec]]
    ELSE Decoded(bytes \o r2.bytes, [r2.rd EXCEPT !.decoder = dec],
                 decode_to_string(dec, bytes \o r2.bytes))

\* next_line once the decoder exists
WithDecoder(r1, dec) ==
    IF dec.encoding = "UTF_16LE"
    THEN SecondRead(r1.bytes, dec, read_until(r1.rd, NUL))
    ELSE Decoded(r1.bytes, [r1.rd EXCEPT !.decoder = dec], decode_to_string(dec, r1.bytes))

\* next_line choosing the encoding anew at every line
FirstReadRedetect(decoder0, r1) ==
    IF ~r1.ok THEN [res |-> "err", line |-> <<>>, rd |-> r1.rd]
    ELSE WithDecoder(r1, new_decoder_with_bom_removal(for_bom(r1.bytes)))

\* next_line after the first read
FirstRead(decoder0, r1) ==
    IF ~r1.ok THEN [res |-> "err", line |-> <<>>, rd |-> r1.rd]
    ELSE WithDecoder(r1, IF decoder0.some THEN decoder0
                         ELSE new_decoder_with_bom_removal(for_bom(r1.bytes)))

\* SubRipParser::next_line
next_line(rd) == FirstRead(rd.decoder, read_until(rd, LF))

\* SubRipParser::skip_empty_lines
RECURSIVE skip_empty_lines(_)
\* skip_empty_lines that takes a blank line for the end of the stream
SkipStopsAtEmpty(r) ==
    IF r.res = "line" /\ r.line = <<>> THEN [res |-> "none", line |-> <<>>, rd |-> r.rd]
    ELSE r

\* skip_empty_lines that skips nothing
SkipNothing(r) == r

SkipIfEmpty(r) ==
    IF r.res = "line" /\ r.line = <<>> THEN skip_empty_lines(r.rd) ELSE r

skip_empty_lines(rd) == SkipIfEmpty(next_line(rd))

\* the text loop of parse_next
RECURSIVE read_text(_, _)
\* the text loop with text.insert(0, line) for text.push(line)
TextLinePrepend(text, r) ==
    IF r.res = "line" /\ r.line /= <<>> THEN read_text(r.rd, <<r.line>> \o text)
    ELSE [res |-> IF r.res = "err" THEN "err" ELSE "ok", text |-> text, rd |-> r.rd]

TextLine(text, r) ==
    IF r.res = "line" /\ r.line /= <<>> THEN read_text(r.rd, Append(text, r.line))
    ELSE [res |-> IF r.res = "err" THEN "err" ELSE "ok", text |-> text, rd |-> r.rd]

\* the text loop reading its lines with skip_empty_lines
read_text_skipping(rd, text) == TextLine(text, skip_empty_lines(rd))

read_text(rd, text) == TextLine(text, next_line(rd))

----------------------------------------------------------------------------
(* The record parser and the iterator (parser.rs) *)

Record(position, start, end, text) ==
    [kind |-> "record", error |-> "", position |-> position,
     start |-> start, end |-> end, text |-> text]

Err(kind) ==
    [kind |-> "error", error |-> kind, position |-> 0,
     start |-> NoTimecode, end |-> NoTimecode, text |-> <<>>]

End ==
    [kind |-> "end", error |-> "", position |-> 0,
     start |-> NoTimecode, end |-> NoTimecode, text |-> <<>>]

\* the text step tagging a failed read with the kind of the step before it
TextReadTimecodeKind(position, t, x) ==
    IF x.res = "err" THEN [item |-> Err("InvalidTimecode"), rd |-> x.rd]
    ELSE [item |-> Record(position, t.start, t.end, x.text), rd |-> x.rd]

\* parse_next from the text loop's end on
TextRead(position, t, x) ==
    IF x.res = "err" THEN [item |-> Err("InvalidText"), rd |-> x.rd]
    ELSE [item |-> Record(position, t.start, t.end, x.text), rd |-> x.rd]

\* parse_next after parse_timecode
TimecodeParsed(position, rd, t) ==
    IF ~t.ok THEN [item |-> Err("InvalidTimecode"), rd |-> rd]
    ELSE IF ~t.some THEN [item |-> End, rd |-> rd]
    ELSE TextRead(position, t, read_text(rd, <<>>))

\* the timecode step with Ok(None) of skip_empty_lines taken for a failure
TimecodeLineNoEnd(position, l2) ==
    IF l2.res = "line" THEN TimecodeParsed(position, l2.rd, parse_timecode(l2.line))
    ELSE [item |-> Err("InvalidTimecode"), rd |-> l2.rd]

\* parse_next after the second skip_empty_lines
TimecodeLine(position, l2) ==
    IF l2.res = "none" THEN [item |-> End, rd |-> l2.rd]
    ELSE IF l2.res = "err" THEN [item |-> Err("InvalidTimecode"), rd |-> l2.rd]
    ELSE TimecodeParsed(position, l2.rd, parse_timecode(l2.line))

\* parse_next after parse_position
PositionParsed(rd, p) ==
    IF ~p.ok THEN [item |-> Err("InvalidPosition"), rd |-> rd]
    ELSE IF ~p.some THEN [item |-> End, rd |-> rd]
    ELSE TimecodeLine(p.value, skip_empty_lines(rd))

\* the position step with Ok(None) of skip_empty_lines taken for a failure
PositionLineNoEnd(l1) ==
    IF l1.res = "line" THEN PositionParsed(l1.rd, parse_position(l1.line))
    ELSE [item |-> Err("InvalidPosition"), rd |-> l1.rd]

\* parse_next after the first skip_empty_lines
PositionLine(l1) ==
    IF l1.res = "none" THEN [item |-> End, rd |-> l1.rd]
    ELSE IF l1.res = "err" THEN [item |-> Err("InvalidPosition"), rd |-> l1.rd]
    ELSE PositionParsed(l1.rd, parse_position(l1.line))

\* SubRipParser::parse_next, as Iterator::next returns it
parse_next(rd) == PositionLine(skip_empty_lines(rd))

\* the parser as a pull finds it; the source fails in its failIn-th read
Reader(failIn, lost) ==
    [input |-> input, pos |-> pos, decoder |-> decoder,
     failIn |-> failIn, lost |-> lost, failed |-> FALSE]

\* a parser just created over the bytes src
NewParser(src) == [input |-> src, pos |-> 0, decoder |-> None, items |-> <<>>]

\* the second parser reading with the decoder the first one has just used
OtherReaderSharedDecoder ==
    [input |-> other.input, pos |-> other.pos, decoder |-> decoder',
     failIn |-> 0, lost |-> 0, failed |-> FALSE]

\* the second parser as a pull finds it
OtherReader ==
    [input |-> other.input, pos |-> other.pos, decoder |-> other.decoder,
     failIn |-> 0, lost |-> 0, failed |-> FALSE]

\* the second parser after Iterator::next returned r.item
OtherReturned(r) ==
    other' = [other EXCEPT !.pos = r.rd.pos, !.decoder = r.rd.decoder,
                           !.items = Append(other.items, r.item)]

\* the state after Iterator::next returned r.item
Returned(r) ==
    /\ items' = Append(items, r.item)
    /\ cursors' = Append(cursors, r.rd.pos)
    /\ pos' = r.rd.pos
    /\ decoder' = r.rd.decoder
    /\ UNCHANGED <<lines, bom, input>>

FailedAndReturned(r) == r.rd.failed /\ Returned(r)

\* Iterator::next over a source whose reads succeed
Pull ==
    /\ Len(items) < MaxPulls
    /\ Returned(parse_next(Reader(0, 0)))
    /\ UNCHANGED <<faults, ioErrors, other, rendered>>

\* Iterator::next during which a read of the source fails
PullIoFail ==
    /\ Len(items) < MaxPulls
    /\ faults > 0
    /\ \E n \in 1..(2 * Len(lines) + 4), k \in 0..MaxLost :
          FailedAndReturned(parse_next(Reader(n, k)))
    /\ faults' = faults - 1
    /\ ioErrors' = ioErrors \cup {Len(items) + 1}
    /\ UNCHANGED <<other, rendered>>

\* Iterator::next of both parsers, pulled in lockstep
PullBoth ==
    /\ Len(items) < MaxPulls
    /\ Returned(parse_next(Reader(0, 0)))
    /\ OtherReturned(parse_next(OtherReader))
    /\ UNCHANGED <<faults, ioErrors, rendered>>

----------------------------------------------------------------------------
(* Rendering (format.rs) *)

\* "{}" of an unsigned integer: its decimal digits
RECURSIVE Decimal(_)
Decimal(n) == IF n < 10 THEN <<48 + n>> ELSE Append(Decimal(n \div 10), 48 + (n % 10))

\* "{:0w}" without the zeros
PadNone(n, width) == Decimal(n)

\* "{:0w}" of an unsigned integer: zeros in front up to `width` characters
Pad(n, width) ==
    [i \in 1..(width - Len(Decimal(n))) |-> 48] \o Decimal(n)

\* "{:02}:{:02}:{:02},{:03}" of a Timecode
FmtTimecode(t) ==
    Pad(t.hours, 2) \o <<58>> \o Pad(t.minutes, 2) \o <<58>> \o Pad(t.seconds, 2)
    \o <<44>> \o Pad(t.milliseconds, 3)

\* a code point written as UTF-8
Utf8Bytes(c) ==
    IF c < 128 THEN <<c>>
    ELSE IF c < 2048 THEN <<192 + (c \div 64), 128 + (c % 64)>>
    ELSE IF c < 65536 THEN <<224 + (c \div 4096), 128 + ((c \div 64) % 64), 128 + (c % 64)>>
    ELSE <<240 + (c \div 262144), 128 + ((c \div 4096) % 64),
           128 + ((c \div 64) % 64), 128 + (c % 64)>>

RECURSIVE Utf8Encode(_)
Utf8Encode(chars) ==
    IF chars = <<>> THEN <<>> ELSE Utf8Bytes(chars[1]) \o Utf8Encode(Tail(chars))

\* the fold of Display::fmt: "\n" and the line, for every text line
RECURSIVE FmtText(_)
FmtText(text) ==
    IF text = <<>> THEN <<>> ELSE <<LF>> \o Utf8Encode(text[1]) \o FmtText(Tail(text))

\* <SubRip as Display>::fmt, as the bytes written
fmt(r) ==
    Decimal(r.position) \o <<LF>>
    \o FmtTimecode(r.start) \o <<32, 45, 45, 62, 32>> \o FmtTimecode(r.end)
    \o FmtText(r.text)

\* format!("{}", sub) for the next pulled item, when it is a record
Render ==
    /\ Len(rendered) < Len(items)
    /\ rendered' = Append(rendered,
                          IF items[Len(rendered) + 1].kind = "record"
                          THEN fmt(items[Len(rendered) + 1]) ELSE <<>>)
    /\ UNCHANGED <<lines, bom, input, pos, decoder, items, cursors, faults, ioErrors,
                   other>>

----------------------------------------------------------------------------
(* Inputs and specifications *)

\* a parser created over a file written from the lines ls with the mark b
StartOne(ls, b, f) ==
    /\ lines = ls
    /\ bom = b
    /\ input = WriteFile(b, JoinLines(ls))
    /\ pos = 0
    /\ decoder = None
    /\ items = <<>>
    /\ cursors = <<>>
    /\ faults = f
    /\ ioErrors = {}
    /\ rendered = <<>>

\* ... with no second parser at work
Start(ls, b, f) == StartOne(ls, b, f) /\ other = NewParser(<<>>)

\* any sequence of lines of the vocabulary, without a byte-order-mark
Init ==
    \E n \in 0..MaxLines : \E ls \in [1..n -> Vocabulary] : Start(ls, "none", 0)

Next == Pull

Spec == Init /\ [][Next]_vars

\* blocks of non-blank lines: well-formed records and records with a bad field
GoodBlocks ==
    {<<LinePos1, LineTimecode, LineText>>, <<LinePos2, LineTimecode, LineText>>,
     <<LinePos2, LineTimecode, LineText, LinePos1>>}

BadBlocks ==
    {<<LineBadPos>>, <<LineBadPos, LineTimecode, LineText>>,
     <<LinePos1, LineBadTimecode>>, <<LinePos1, LineBadTimecode, LineText>>}

Blanks(n) == [i \in 1..n |-> LineBlank]

\* blocks bs[1..n], seps[i] blank lines after block i, written one after another
RECURSIVE WriteBlocks(_, _, _)
WriteBlocks(bs, seps, i) ==
    IF i > Len(bs) THEN <<>>
    ELSE bs[i] \o (IF i < Len(bs) THEN Blanks(seps[i]) ELSE <<>>)
         \o WriteBlocks(bs, seps, i + 1)

\* `lead` blank lines, the blocks, then `trail` empty lines: trail = 0 leaves
\* the last line unterminated, 1 terminates it, more add blank lines
BlockInput(shapes, marks) ==
    \E n \in 0..MaxRecords, lead \in 0..MaxBlank, trail \in 0..MaxBlank, b \in marks :
       \E bs \in [1..n -> shapes], seps \in [1..(IF n = 0 THEN 0 ELSE n - 1) -> 1..MaxBlank] :
          Start(Blanks(lead) \o WriteBlocks(bs, seps, 1) \o Blanks(trail), b, 0)

InitRecords == BlockInput(GoodBlocks \cup BadBlocks, {"none"})

SpecRecords == InitRecords /\ [][Next]_vars

InitBom == BlockInput(GoodBlocks, {"UTF_8", "UTF_16BE", "UTF_16LE"})

SpecBom == InitBom /\ [][Next]_vars

\* a source whose reads may fail
IoVocabulary == {LinePos1, LineBadPos, LineTimecode, LineBlank}

InitIo ==
    \E n \in 0..MaxIoLines : \E ls \in [1..n -> IoVocabulary] :
       \E b \in {"none", "UTF_16LE"} : Start(ls, b, MaxFaults)

NextIo == Pull \/ PullIoFail

SpecIo == InitIo /\ [][NextIo]_vars

\* one record whose text line is any byte string without a line end, in a
\* source without a byte-order-mark; the last line terminated or not
TextBytes == {97, 169, 195, 255}

InitBytes ==
    \E n \in 1..MaxBytes : \E t \in [1..n -> TextBytes] : \E end \in {<<>>, <<LineBlank>>} :
       Start(<<LinePos1, LineTimecode, t>> \o end, "none", 0)

SpecBytes == InitBytes /\ [][Next]_vars

\* one block in the grammar: a position numeral, two timestamps with
\* zero-padded fields around " --> ", one or two lines of ASCII text
LinePos10 == <<49, 48>>             \* "10"
LinePos01 == <<48, 49>>             \* "01"

Stamps ==
    {<<48, 48, 58, 48, 48, 58, 48, 49, 44, 48, 48, 48>>,      \* "00:00:01,000"
     <<48, 49, 58, 48, 52, 58, 48, 48, 44, 55, 48, 53>>,      \* "01:04:00,705"
     <<49, 50, 58, 53, 57, 58, 48, 55, 44, 48, 52, 53>>}      \* "12:59:07,045"

InitDisplay ==
    \E p \in {LinePos1, LinePos10, LinePos01}, a \in Stamps, b \in Stamps,
       t \in {<<LineText>>, <<LineText, LinePos1>>}, end \in {<<>>, <<LineBlank>>} :
       Start(<<p, a \o <<32, 45, 45, 62, 32>> \o b>> \o t \o end, "none", 0)

NextDisplay == Pull \/ Render

SpecDisplay == InitDisplay /\ [][NextDisplay]_vars

\* UTF-16 files whose lines hold characters with a byte 0x0A in their code
\* unit: U+040A, U+0A05, U+010A (followed by U+3000)
WideLines == {<<1034>>, <<2565>>, <<266, 12288>>, LinePos1, LineBlank}

InitWide ==
    \E n \in 0..MaxWideLines : \E ls \in [1..n -> WideLines] :
       \E b \in {"UTF_16BE", "UTF_16LE"} : Start(ls, b, 0)

SpecWide == InitWide /\ [][Next]_vars

Marks == {"none", "UTF_8", "UTF_16BE", "UTF_16LE"}

\* text lines that begin with the bytes of a byte-order-mark: in a UTF-16
\* file the character U+FEFF, in a UTF-8 file the bytes of any of the marks
MarkedLines(b) ==
    IF b \in {"UTF_16BE", "UTF_16LE"} THEN {<<65279, 49>>}
    ELSE {BomBytes(m) \o <<49>> : m \in Marks \ {"none"}}

\* one record whose last text line begins with a mark, in a file with or
\* without a mark of its own
InitMarks ==
    \E b \in Marks, lead \in 0..MaxBlank, pre \in {<<>>, <<LineText>>},
       end \in {<<>>, <<LineBlank>>} :
       \E ml \in MarkedLines(b) :
          Start(Blanks(lead) \o <<LinePos1, LineTimecode>> \o pre \o <<ml>> \o end, b, 0)

SpecMarks == InitMarks /\ [][Next]_vars

\* two parsers over two copies of the same bytes
InitTwin ==
    \E n \in 0..MaxTwinLines : \E ls \in [1..n -> Vocabulary] : \E b \in Marks :
       StartOne(ls, b, 0) /\ other = NewParser(input)

NextTwin == PullBoth

SpecTwin == InitTwin /\ [][NextTwin]_vars

\* position lines: "0", "00", "+0", "1", "01", "10", "1433", "-1", "1b"
PositionLines ==
    {<<48>>, <<48, 48>>, <<43, 48>>, LinePos1, LinePos01, LinePos10,
     <<49, 52, 51, 51>>, <<45, 49>>, LineBadPos}

\* one block or two with any of the position lines, in a file with or
\* without a byte-order-mark
InitPositions ==
    \E p \in PositionLines, q \in PositionLines, b \in Marks, n \in 1..2 :
       Start(SubSeq(<<p, LineTimecode, LineText, LineBlank, q, LineTimecode, LineText>>,
                    1, 4 * n - 1), b, 0)

SpecPositions == InitPositions /\ [][Next]_vars

\* a timecode line as its tokens: between them ':' ':' ',' ' ' ' ' ':' ':' ','
\* and a space before anything after the ninth
TokenSeparators == <<58, 58, 44, 32, 32, 58, 58, 44>>

Separator(k) == IF k <= Len(TokenSeparators) THEN TokenSeparators[k] ELSE 32

RECURSIVE JoinTokensFrom(_, _)
JoinTokensFrom(toks, k) ==
    IF k > Len(toks) THEN <<>>
    ELSE (IF k = 1 THEN <<>> ELSE <<Separator(k - 1)>>) \o toks[k]
         \o JoinTokensFrom(toks, k + 1)

JoinTokens(toks) == JoinTokensFrom(toks, 1)

Arrow == <<45, 45, 62>>             \* "-->"

\* "00:00:0,500 --> 00:00:2,00"
BaseTokens ==
    <<(<<48, 48>>), <<48, 48>>, <<48>>, <<53, 48, 48>>, Arrow,
      <<48, 48>>, <<48, 48>>, <<50>>, <<48, 48>>>>

\* "00:-1:-58,-240 --> 00:-1:-55,-530"
NegativeTokens ==
    <<(<<48, 48>>), <<45, 49>>, <<45, 53, 56>>, <<45, 50, 52, 48>>, Arrow,
      <<48, 48>>, <<45, 49>>, <<45, 53, 53>>, <<45, 53, 51, 48>>>>

\* "7", "007", "255", "256", "65535", "65536", "+1", "-1", "", "1b", "-->"
TimeTokens ==
    {<<55>>, <<48, 48, 55>>, <<50, 53, 53>>, <<50, 53, 54>>,
     <<54, 53, 53, 51, 53>>, <<54, 53, 53, 51, 54>>,
     <<43, 49>>, <<45, 49>>, <<>>, <<49, 98>>, Arrow}

\* the first n of the tokens, with "x" for every token after the last of toks
FirstTokens(toks, n) == [k \in 1..n |-> IF k <= Len(toks) THEN toks[k] ELSE <<120>>]

\* one block whose timecode line is one of the two lines above with one token
\* replaced, cut after some token or with tokens added
InitTimecode ==
    \E base \in {BaseTokens, NegativeTokens}, i \in 1..9, n \in 1..MaxTokens :
       \E t \in TimeTokens \cup {base[i]} :
          Start(<<LinePos1, JoinTokens(FirstTokens([base EXCEPT ![i] = t], n)),
                  LineText>>, "none", 0)

SpecTimecode == InitTimecode /\ [][Next]_vars

\* the line "あ" (U+3042): its UTF-8 bytes in a file of bytes, the character
\* in a UTF-16 file
LineKana(b) == IF b \in {"UTF_16BE", "UTF_16LE"} THEN <<12354>> ELSE <<227, 129, 130>>

CrLfLines(b) == {LinePos1, LineTimecode, LineText, LineKana(b), LineBlank}

\* one parser over the lines terminated by LF, a second parser over the
\* same lines terminated by CR LF
InitCrLf ==
    \E b \in {"none", "UTF_16BE", "UTF_16LE"} : \E n \in 0..MaxCrLines :
       \E ls \in [1..n -> CrLfLines(b)] :
          StartOne(ls, b, 0) /\ other = NewParser(WriteFile(b, JoinCrLf(ls)))

SpecCrLf == InitCrLf /\ [][NextTwin]_vars

----------------------------------------------------------------------------
(* What the input holds, read off the lines it was written from *)

\* the maximal runs of non-blank lines
RECURSIVE BlocksFrom(_, _)
BlocksFrom(ls, cur) ==
    IF ls = <<>> THEN (IF cur = <<>> THEN <<>> ELSE <<cur>>)
    ELSE IF ls[1] = LineBlank
    THEN (IF cur = <<>> THEN <<>> ELSE <<cur>>) \o BlocksFrom(Tail(ls), <<>>)
    ELSE BlocksFrom(Tail(ls), Append(cur, ls[1]))

Blocks == BlocksFrom(lines, <<>>)

WellFormedBlock(b) ==
    Len(b) >= 3 /\ b[1] \in {LinePos1, LinePos2} /\ b[2] = LineTimecode

AllWellFormed == \A i \in 1..Len(Blocks) : WellFormedBlock(Blocks[i])

\* no blank line before the first block, exactly one between two blocks, none
\* after the last (whose last line may be terminated)
SingleBlankSeparated ==
    \A i \in 1..Len(lines) :
        lines[i] = LineBlank => i > 1 /\ lines[i - 1] /= LineBlank

\* the record a well-formed block of the vocabulary stands for
RecordWritten(b) ==
    [kind |-> "record", error |-> "",
     position |-> IF b[1] = LinePos1 THEN 1 ELSE 2,
     start |-> [hours |-> 0, minutes |-> 0, seconds |-> 1, milliseconds |-> 0],
     end |-> [hours |-> 0, minutes |-> 0, seconds |-> 2, milliseconds |-> 0],
     text |-> SubSeq(b, 3, Len(b))]

\* item i of a stream of well-formed blocks: the records, then end-of-sequence
ItemWritten(i) == IF i <= Len(Blocks) THEN RecordWritten(Blocks[i]) ELSE End

Pulled == 1..Len(items)

\* the lines a reader of the input meets: a blank last element of lines
\* stands for the terminator of the line before it
LinesOfInput ==
    IF lines /= <<>> /\ lines[Len(lines)] = LineBlank
    THEN SubSeq(lines, 1, Len(lines) - 1)
    ELSE lines

\* the offset in an unmarked input right after its k-th line
RECURSIVE LineEnd(_)
LineEnd(k) ==
    IF k = 0 THEN 0
    ELSE Min(Len(input), LineEnd(k - 1) + Len(LinesOfInput[k]) + 1)

AtLineEnd(c) == \E k \in 0..Len(LinesOfInput) : LineEnd(k) = c

LinesBefore(c) == CHOOSE k \in 0..Len(LinesOfInput) : LineEnd(k) = c

\* the lines pull i has read
LinesReadBy(i) ==
    SubSeq(LinesOfInput,
           LinesBefore(IF i = 1 THEN 0 ELSE cursors[i - 1]) + 1,
           LinesBefore(cursors[i]))

----------------------------------------------------------------------------
(* The claims *)

\* C1: N well-formed records separated by exactly one blank line are pulled
\* as exactly those N records, in input order, each with its position, its
\* timecodes and its text lines in order; every pull after them returns
\* end-of-sequence and no pull returns an error.
C1_RecordsInOrderThenEnd ==
    (bom = "none" /\ AllWellFormed /\ SingleBlankSeparated)
        => \A i \in Pulled : items[i] = ItemWritten(i)

C1_Witness ==
    /\ bom = "none" /\ AllWellFormed /\ SingleBlankSeparated
    /\ Len(Blocks) = 2 /\ Blocks[1] /= Blocks[2]
    /\ Len(items) = 3 /\ items[3] = End

\* C2: a record whose position line is not an integer, whatever non-blank
\* lines follow it in its block, gives exactly one InvalidPosition error, and
\* the next pull returns the following well-formed record.
C2_OneInvalidPositionThenNextRecord ==
    (Len(Blocks) >= 2 /\ Blocks[1][1] = LineBadPos /\ WellFormedBlock(Blocks[2]))
        => /\ Len(items) >= 1 => items[1] = Err("InvalidPosition")
           /\ Len(items) >= 2 => items[2] = RecordWritten(Blocks[2])

\* C3: a record whose timecode line is malformed, whatever text lines follow
\* it in its block, gives exactly one InvalidTimecode error, and the next
\* pull returns the following well-formed record.
C3_OneInvalidTimecodeThenNextRecord ==
    (/\ Len(Blocks) >= 2 /\ Len(Blocks[1]) >= 2
     /\ Blocks[1][1] \in {LinePos1, LinePos2} /\ Blocks[1][2] = LineBadTimecode
     /\ WellFormedBlock(Blocks[2]))
        => /\ Len(items) >= 1 => items[1] = Err("InvalidTimecode")
           /\ Len(items) >= 2 => items[2] = RecordWritten(Blocks[2])

\* C4: a pull returns end-of-sequence only with the whole source read, also
\* when it follows an error item.
C4_EndOnlyAtEndOfSource ==
    \A i \in Pulled : items[i].kind = "end" => cursors[i] = Len(input)

C4_Witness ==
    \E i \in Pulled :
        /\ i > 1 /\ items[i].kind = "end" /\ items[i - 1].kind = "error"
        /\ cursors[i - 1] < cursors[i] /\ cursors[i] = Len(input)

\* C5: after a pull returned an error the rest of the failed block has been
\* discarded: the next line to read is a blank line or the end of the stream,
\* never a line of the failed block.
C5_ErrorDiscardsRestOfBlock ==
    \A i \in Pulled :
        items[i].kind = "error"
            => cursors[i] = Len(input) \/ input[cursors[i] + 1] = LF

\* C6: the pull during which a read failed surfaces the failure, and every
\* later pull returns end-of-sequence.
C6_ReadFailureEndsSequence ==
    \A i \in ioErrors :
        /\ items[i].kind = "error"
        /\ \A j \in Pulled : j > i => items[j].kind = "end"

\* L ends with the timecode line and the text lines and then the stream ends
EndsAtEndOfStream(L, text, c) ==
    /\ c = Len(input)
    /\ Len(L) >= Len(text) + 2
    /\ SubSeq(L, Len(L) - Len(text) + 1, Len(L)) = text
    /\ L[Len(L) - Len(text)] /= LineBlank

\* L ends with the timecode line, the text lines and one blank line
EndsAtBlankLine(L, text) ==
    /\ Len(L) >= Len(text) + 3
    /\ L[Len(L)] = LineBlank
    /\ SubSeq(L, Len(L) - Len(text), Len(L) - 1) = text
    /\ L[Len(L) - Len(text) - 1] /= LineBlank

\* C7: a pull reads nothing beyond the item it returns.  A pull that returns
\* a record has read up to and including the blank line, or up to the end of
\* the stream, that ends the record's text block: the lines it read end with
\* the timecode line, the record's text lines and that blank line, and no
\* line after it.  A pull that returns an error has read no line after the
\* failing one.
C7_PullReadsOneRecordOnly ==
    \A i \in Pulled :
        /\ AtLineEnd(cursors[i])
        /\ items[i].kind = "record"
            => /\ \A k \in 1..Len(items[i].text) : items[i].text[k] /= LineBlank
               /\ \/ EndsAtEndOfStream(LinesReadBy(i), items[i].text, cursors[i])
                  \/ EndsAtBlankLine(LinesReadBy(i), items[i].text)
        /\ items[i].kind = "error"
            => /\ LinesReadBy(i) /= <<>>
               /\ LinesReadBy(i)[Len(LinesReadBy(i))] /= LineBlank

C7_Witness ==
    \E i \in Pulled :
        /\ items[i].kind = "record" /\ Len(items[i].text) >= 1
        /\ cursors[i] < Len(input)
        /\ input[cursors[i] + 1] /= LF

\* C8: on an empty byte stream every pull returns end-of-sequence: no
\* record and no error is produced.
C8_EmptyStreamEndsAtOnce ==
    input = <<>> => \A i \in Pulled : items[i] = End

C8_Witness == input = <<>> /\ Len(items) >= 1 /\ items[1] = End

\* C9: however many blank lines stand before the first well-formed record,
\* between two of them and after the last, the items pulled are the same:
\* the records in order, then end-of-sequence.
C9_BlankRunsChangeNothing ==
    (bom = "none" /\ AllWellFormed) => \A i \in Pulled : items[i] = ItemWritten(i)

C9_Witness ==
    /\ bom = "none" /\ AllWellFormed /\ Len(Blocks) = 2
    /\ Len(lines) >= 2 /\ lines[1] = LineBlank /\ lines[2] /= LineBlank
    /\ lines[Len(lines)] = LineBlank /\ lines[Len(lines) - 1] = LineBlank
    /\ \E k \in 2..(Len(lines) - 3) :
          /\ lines[k] /= LineBlank /\ lines[k + 1] = LineBlank
          /\ lines[k + 2] = LineBlank /\ lines[k + 3] /= LineBlank
    /\ Len(items) = 3 /\ items[3] = End

\* C10: in a stream that begins with a byte-order-mark the first record is
\* pulled with its position, its timecodes and its text, and the mark is in
\* none of its text lines.
C10_MarkRemovedFirstRecordIntact ==
    (bom \in {"UTF_8", "UTF_16BE", "UTF_16LE"} /\ Len(Blocks) >= 1
     /\ WellFormedBlock(Blocks[1]) /\ Len(items) >= 1)
        => /\ items[1] = RecordWritten(Blocks[1])
           /\ \A k \in 1..Len(items[1].text) :
                 \A c \in 1..Len(items[1].text[k]) :
                    items[1].text[k][c] /= 65279

\* a manual lossy decode of UTF-8 (String::from_utf8_lossy): every malformed
\* or cut-short sequence gives one U+FFFD
RECURSIVE Utf8Lossy(_)
Utf8Lossy(src) ==
    IF src = <<>> THEN <<>>
    ELSE IF Utf8Unit(src).kind = "valid"
    THEN <<Utf8Unit(src).char>> \o Utf8Lossy(Drop(src, Utf8Unit(src).len))
    ELSE <<ReplacementChar>> \o Utf8Lossy(Drop(src, Utf8Unit(src).len))

\* C11: the text line a record carries is the complete lossy decode of the
\* line's raw bytes (UTF-8, the source having no byte-order-mark) without
\* its terminator: malformed sequences are replaced, nothing is dropped or
\* cut short, and the pull does not fail.
C11_LinesDecodedInFull ==
    (Len(lines) >= 3 /\ lines[1] = LinePos1 /\ lines[2] = LineTimecode
     /\ lines[3] /= LineBlank /\ Len(items) >= 1)
        => /\ items[1].kind = "record"
           /\ items[1].text = <<Utf8Lossy(lines[3])>>

\* the number of lines of an unmarked input that lie wholly before offset c
LinesWithin(c) ==
    CHOOSE k \in 0..Len(LinesOfInput) :
        /\ LineEnd(k) <= c
        /\ k = Len(LinesOfInput) \/ LineEnd(k + 1) > c

NonBlank(l) == l /= LineBlank

\* the non-blank lines pull i has read to their end
NonBlankReadBy(i) ==
    SelectSeq(SubSeq(LinesOfInput,
                     LinesBefore(IF i = 1 THEN 0 ELSE cursors[i - 1]) + 1,
                     LinesWithin(cursors[i])),
              NonBlank)

\* the step pull i failed in: a line that does not parse is the last one read;
\* a failed read comes after the lines read
FailedStep(i) == Len(NonBlankReadBy(i)) + (IF i \in ioErrors THEN 1 ELSE 0)

KindOfStep(n) ==
    IF n = 1 THEN "InvalidPosition" ELSE IF n = 2 THEN "InvalidTimecode" ELSE "InvalidText"

\* C12: the kind of an error item names the step that failed: the first
\* non-blank line of the pull is its position line, the second its timecode
\* line, the later ones its text; a failure on (or while reading for) the
\* position gives InvalidPosition, for the timecode InvalidTimecode, for the
\* text InvalidText, and no other kind is given.
C12_KindNamesFailedStep ==
    \A i \in Pulled :
        (/\ items[i].kind = "error" /\ bom = "none"
         /\ AtLineEnd(IF i = 1 THEN 0 ELSE cursors[i - 1]))
            => items[i].error = KindOfStep(FailedStep(i))

C12_Witness ==
    /\ bom = "none"
    /\ \E i, j \in Pulled :
          /\ i \in ioErrors /\ items[i].kind = "error" /\ items[i].error = "InvalidText"
          /\ j \notin ioErrors /\ items[j].kind = "error"
          /\ \A n \in {i, j} : AtLineEnd(IF n = 1 THEN 0 ELSE cursors[n - 1])

\* C13: the pulled sequence is finite: a pull that returns a record or an
\* error has read at least one more line of the source, so only the first
\* n pulls over an input of n lines can return one, and every later pull
\* returns end-of-sequence.
C13_EveryItemConsumesALine ==
    \A i \in Pulled :
        items[i].kind /= "end"
            => /\ AtLineEnd(cursors[i])
               /\ LinesBefore(cursors[i]) > LinesBefore(IF i = 1 THEN 0 ELSE cursors[i - 1])
               /\ i <= Len(LinesOfInput)

C13_Witness ==
    /\ Len(LinesOfInput) >= 3
    /\ Len(items) = Len(LinesOfInput) + 1
    /\ \A i \in Pulled : (items[i].kind = "end") = (i = Len(items))

\* a numeral without sign or leading zero
PlainNumeral(l) ==
    /\ l /= <<>>
    /\ \A i \in 1..Len(l) : l[i] >= 48 /\ l[i] <= 57
    /\ Len(l) = 1 \/ l[1] /= 48

C16_RecordHasText ==
    /\ \A i \in Pulled : items[i].kind = "record" => Len(items[i].text) >= 1
    /\ Blocks = <<(<<LinePos1, LineTimecode>>)>> => \A i \in Pulled : items[i] = End

\* the index of the first non-blank line of L, or 0
FirstNonBlank(L) ==
    IF \A k \in 1..Len(L) : L[k] = LineBlank THEN 0
    ELSE Least({k \in 1..Len(L) : L[k] /= LineBlank})

\* C17: the timecode step reads exactly one line, the one right after the
\* position line: when that line is blank the pull reads no line after it,
\* so no blank line lies between the position line and a line parsed as
\* timecode.
C17_TimecodeStepReadsOneLine ==
    \A i \in Pulled :
        (/\ FirstNonBlank(LinesReadBy(i)) > 0
         /\ FirstNonBlank(LinesReadBy(i)) < Len(LinesReadBy(i))
         /\ LinesReadBy(i)[FirstNonBlank(LinesReadBy(i)) + 1] = LineBlank)
            => Len(LinesReadBy(i)) = FirstNonBlank(LinesReadBy(i)) + 1

\* offset c of a UTF-16 input lies right after a complete linefeed code unit
AfterLinefeedUnit(c) ==
    /\ c >= Len(BomBytes(bom)) + 2
    /\ (c - Len(BomBytes(bom))) % 2 = 0
    /\ <<input[c - 1], input[c]>> = EncodeUtf16(<<LF>>, bom = "UTF_16BE")

\* C18: in a UTF-16 stream of either byte order every line read ends right
\* after a complete linefeed code unit or at the end of the stream (so the
\* next read starts on a code-unit boundary): a byte 0x0A that is half of
\* another code unit ends no line.  Every pull stops after a line read.
C18_Utf16LinesEndAtLinefeedUnits ==
    bom \in {"UTF_16BE", "UTF_16LE"}
        => \A i \in Pulled : cursors[i] = Len(input) \/ AfterLinefeedUnit(cursors[i])

\* the encoding of the file as it was written
EncodingWritten == IF bom = "none" THEN "UTF_8" ELSE bom

LastLine(b) == b[Len(b)]

\* the line begins with the mark of the file's own encoding
BeginsWithOwnMark(l) ==
    IF bom \in {"UTF_16BE", "UTF_16LE"} THEN l /= <<>> /\ l[1] = 65279
    ELSE IsPrefix(BomBytes("UTF_8"), l)

\* C19: the encoding chosen at the first line read is the parser's encoding
\* at every later line; a byte-order-mark at the start of a later line does
\* not change it, and the mark of the encoding itself is not stripped there:
\* it stays in the line as the character U+FEFF.
C19_EncodingChosenOnce ==
    /\ decoder.some => decoder.encoding = EncodingWritten
    /\ (Len(items) >= 1 /\ Len(Blocks) = 1 /\ Len(Blocks[1]) >= 3
        /\ BeginsWithOwnMark(LastLine(Blocks[1])))
          => /\ items[1].kind = "record"
             /\ Len(items[1].text) = Len(Blocks[1]) - 2
             /\ LastLine(items[1].text)[1] = 65279

C19_Witness ==
    /\ Len(items) >= 1 /\ Len(Blocks) = 1 /\ Len(Blocks[1]) = 4
    /\ BeginsWithOwnMark(LastLine(Blocks[1]))
    /\ bom = "UTF_8" /\ lines[1] = LineBlank
    /\ items[1].text = <<LineText, <<65279, 49>>>>

\* the second parser reads the CR LF copy of the input
ReadsCrLfCopy == other.input = WriteFile(bom, JoinCrLf(lines))

\* C20: trimming removes one linefeed from the end of a line, then one
\* carriage return, and nothing else: CR CR LF keeps one CR, LF LF keeps one
\* LF, a line with no linefeed at its end is unchanged; and a parser over the
\* CR LF copy of an input has returned, at every pull, the items of the
\* parser over the LF copy.
C20_CrLfCopySameRecords ==
    /\ trim_newline(<<97, CR, CR, LF>>) = <<97, CR>>
    /\ trim_newline(<<97, LF, LF>>) = <<97, LF>>
    /\ trim_newline(<<97, CR, LF>>) = <<97>>
    /\ trim_newline(<<97, LF>>) = <<97>>
    /\ trim_newline(<<97, CR>>) = <<97, CR>>
    /\ trim_newline(<<97>>) = <<97>>
    /\ ReadsCrLfCopy => other.items = items

\* a block of the timecode inputs: position 1, a timecode line and a
\* text line, pulled
TimecodeBlockPulled ==
    Len(lines) = 3 /\ lines[1] = LinePos1 /\ lines[2] /= <<>> /\ Len(items) >= 1

DelimitersUpTo(l, p) == Cardinality({q \in 1..p : l[q] \in {58, 44, 32}})

\* token k (from 0) of a line: the characters with k delimiters before them
TokenChars(l, k) ==
    {p \in 1..Len(l) : l[p] \notin {58, 44, 32} /\ DelimitersUpTo(l, p) = k}

Token(l, k) ==
    [q \in 1..Cardinality(TokenChars(l, k)) |-> l[Least(TokenChars(l, k)) + q - 1]]

TokenMissing(l, k) == k > DelimitersUpTo(l, Len(l))

Unsigned(tok) == IF tok /= <<>> /\ tok[1] = 43 THEN Tail(tok) ELSE tok

RECURSIVE NumeralValue(_)
NumeralValue(d) ==
    IF d = <<>> THEN 0
    ELSE 10 * NumeralValue(SubSeq(d, 1, Len(d) - 1)) + (d[Len(d)] - 48)

\* the largest value of field k: a byte for hours, minutes and seconds, two
\* bytes for the milliseconds
FieldMax(k) == IF k \in {3, 8} THEN 65535 ELSE 255

\* the token is a number of field k: decimal digits, a '+' allowed before
\* them, of a value the field holds
IsFieldNumber(tok, k) ==
    /\ Unsigned(tok) /= <<>>
    /\ \A q \in 1..Len(Unsigned(tok)) : Unsigned(tok)[q] \in 48..57
    /\ NumeralValue(Unsigned(tok)) <= FieldMax(k)

FieldValue(l, k) == NumeralValue(Unsigned(Token(l, k)))

TimecodeFrom(l, k) ==
    [hours |-> FieldValue(l, k), minutes |-> FieldValue(l, k + 1),
     seconds |-> FieldValue(l, k + 2), milliseconds |-> FieldValue(l, k + 3)]

Magnitude(tok) == IF tok /= <<>> /\ tok[1] = 45 THEN Tail(tok) ELSE tok

\* decimal digits, a '-' allowed before them
IsSignedNumber(tok, k) ==
    /\ Magnitude(tok) /= <<>>
    /\ \A q \in 1..Len(Magnitude(tok)) : Magnitude(tok)[q] \in 48..57
    /\ NumeralValue(Magnitude(tok)) <= FieldMax(k)

SignedValue(tok) ==
    IF tok[1] = 45 THEN 0 - NumeralValue(Tail(tok)) ELSE NumeralValue(tok)

SignedTimecodeFrom(l, k) ==
    [hours |-> SignedValue(Token(l, k)), minutes |-> SignedValue(Token(l, k + 1)),
     seconds |-> SignedValue(Token(l, k + 2)),
     milliseconds |-> SignedValue(Token(l, k + 3))]

\* C22: a timecode field written with a minus sign before its digits is
\* accepted and has that negative value: "00:-1:-58,-240 --> 00:-1:-55,-530"
\* gives the start {0, -1, -58, -240} and the end {0, -1, -55, -530}, and no
\* error.
C22_MinusSignAccepted ==
    (/\ TimecodeBlockPulled
     /\ \A k \in {0, 1, 2, 3, 5, 6, 7, 8} :
           ~TokenMissing(lines[2], k) /\ IsSignedNumber(Token(lines[2], k), k))
        => /\ items[1].kind = "record"
           /\ items[1].start = SignedTimecodeFrom(lines[2], 0)
           /\ items[1].end = SignedTimecodeFrom(lines[2], 5)

\* C23: the position of every record pulled is a positive integer: 1 or more.
C23_PositionPositive ==
    \A i \in Pulled : items[i].kind = "record" => items[i].position >= 1

\* the lines of the input that pull i has before it
LinesLeftAt(i) ==
    SubSeq(LinesOfInput, LinesBefore(IF i = 1 THEN 0 ELSE cursors[i - 1]) + 1,
           Len(LinesOfInput))

\* blank lines or none, a position numeral, and only blank lines after it
DanglingPosition(L) ==
    /\ FirstNonBlank(L) > 0
    /\ PlainNumeral(L[FirstNonBlank(L)])
    /\ \A k \in (FirstNonBlank(L) + 1)..Len(L) : L[k] = LineBlank

\* C24: a pull that finds a valid position line with the end of the stream
\* or only blank lines after it returns end-of-sequence: no record and no
\* error for the position, the stream read to its end, and end-of-sequence
\* at every later pull.
C24_DanglingPositionEnds ==
    \A i \in Pulled :
        DanglingPosition(LinesLeftAt(i))
            => /\ cursors[i] = Len(input)
               /\ \A j \in i..Len(items) : items[j] = End

C24_Witness ==
    /\ Len(lines) = 5 /\ lines[4] = LineBlank /\ lines[5] = LinePos1
    /\ Len(items) >= 3 /\ items[1].kind = "record"
    /\ DanglingPosition(LinesLeftAt(2)) /\ items[2] = End

\* "HH:MM:SS,mmm --> HH:MM:SS,mmm": digits in the fields, the delimiters and
\* the arrow between them
WellFormedTimecodeLine(l) ==
    /\ Len(l) = 29
    /\ \A p \in {1, 2, 4, 5, 7, 8, 10, 11, 12, 18, 19, 21, 22, 24, 25, 27, 28, 29} :
          l[p] \in 48..57
    /\ \A p \in {3, 6, 20, 23} : l[p] = 58
    /\ \A p \in {9, 26} : l[p] = 44
    /\ \A p \in {13, 17} : l[p] = 32
    /\ SubSeq(l, 14, 16) = <<45, 45, 62>>

\* the fields and the arrow of a well-formed line, in the order written
WrittenFields(l) ==
    <<SubSeq(l, 1, 2), SubSeq(l, 4, 5), SubSeq(l, 7, 8), SubSeq(l, 10, 12),
      SubSeq(l, 14, 16),
      SubSeq(l, 18, 19), SubSeq(l, 21, 22), SubSeq(l, 24, 25), SubSeq(l, 27, 29)>>

\* a block with a well-formed timecode line, pulled
WellFormedLinePulled ==
    Len(lines) >= 3 /\ WellFormedTimecodeLine(lines[2]) /\ Len(items) >= 1

\* the split gives the fields written: the tokens 0-3 the start, the token 4
\* the arrow, the tokens 5-8 the end, and the record has their values
TokensAreFields(l) ==
    /\ Len(Split(l, TimecodeDelimiters)) >= 9
    /\ SubSeq(Split(l, TimecodeDelimiters), 1, 9) = WrittenFields(l)
    /\ items[1].kind = "record"
    /\ items[1].start =
          [hours |-> NumeralValue(WrittenFields(l)[1]),
           minutes |-> NumeralValue(WrittenFields(l)[2]),
           seconds |-> NumeralValue(WrittenFields(l)[3]),
           milliseconds |-> NumeralValue(WrittenFields(l)[4])]
    /\ items[1].end =
          [hours |-> NumeralValue(WrittenFields(l)[6]),
           minutes |-> NumeralValue(WrittenFields(l)[7]),
           seconds |-> NumeralValue(WrittenFields(l)[8]),
           milliseconds |-> NumeralValue(WrittenFields(l)[9])]

\* C25: splitting a well-formed timecode line "HH:MM:SS,mmm --> HH:MM:SS,mmm"
\* at ':', ',' and space gives 10 tokens: the tokens 0-3 are the fields of
\* the start, the token 4 is the arrow, the tokens 5-8 are the fields of the
\* end.
C25_TenTokens ==
    WellFormedLinePulled
        => /\ Len(Split(lines[2], TimecodeDelimiters)) = 10
           /\ TokensAreFields(lines[2])

\* C25 as amended: the split gives 9 tokens, the tokens 0-3 the fields of the
\* start, the token 4 the arrow, the tokens 5-8 the fields of the end.
C25_NineTokens ==
    WellFormedLinePulled
        => /\ Len(Split(lines[2], TimecodeDelimiters)) = 9
           /\ TokensAreFields(lines[2])

C25_Witness ==
    /\ WellFormedLinePulled
    /\ Split(lines[2], TimecodeDelimiters)[4] = <<55, 48, 53>>
    /\ Split(lines[2], TimecodeDelimiters)[5] = <<45, 45, 62>>
    /\ items[1].start.milliseconds = 705 /\ items[1].end.hours = 12

====
